---- MODULE Spec2Model ----
(***************************************************************************)
(* Model of Models/MicroNet_imagenet.py: the HSwish activation, the        *)
(* MicroBlock unit and the construction / forward pass of                  *)
(* MicroNet_imagenet.                                                      *)
(*                                                                         *)
(* The constructor MicroNet_imagenet.__init__ is a straight-line program;  *)
(* it is modelled step by step (pc), one action per group of statements,   *)
(* and the loop of _make_layers one MicroBlock per step.  Tensors are      *)
(* modelled by their shapes (channel and spatial bookkeeping) and, for the *)
(* element-wise arithmetic of MicroBlock.forward and HSwish.forward, by    *)
(* scalar values.  HSwish is evaluated in IEEE binary32 arithmetic         *)
(* (round to nearest, ties to even), the default tensor dtype.             *)
(***************************************************************************)
EXTENDS Integers, Sequences, FiniteSets, TLC

VARIABLES
  pc,        \* the statement of __init__ to run next, "done" or "error"
  args,      \* the arguments of __init__ (line 103)
  cfg,       \* self.cfg (lines 110-120, 191-195)
  self,      \* the plain attributes set by set_config and lines 128-132
  children,  \* the names of the registered sub-modules (named_children)
  layers,    \* the MicroBlocks built so far by _make_layers
  loop,      \* the loop variables of _make_layers (stage, position, in_planes)
  top,       \* conv1, last_conv, linear, stem_act and their initialization
  log,       \* the statements of __init__ run so far, in order
  call       \* the forward call made last and its result

vars == <<pc, args, cfg, self, children, layers, loop, top, log, call>>

----------------------------------------------------------------------------
(* Bounds of the explored inputs.                                          *)

\* wide_factor ranges over n / 2^e, n in 1..MaxWideNum, e in 0..MaxWideDenExp
MaxWideNum == 2
MaxWideDenExp == 5
\* depth_factor ranges over n / 2^e, n in 1..MaxDepthNum, e in 0..MaxDepthDenExp
MaxDepthNum == 2
MaxDepthDenExp == 1
\* HSwish inputs k/2 for k in -MaxX..MaxX
MaxX == 8
\* HSwish inputs +-(3 + j * 2^-22), j in 0..MaxMant (full 24-bit significands)
MaxMant == 2
\* image heights 32 and 32 * MaxHMult (224)
MaxHMult == 7
\* batch size of a forward call
MaxBatch == 2

\* sample values standing for tensor elements in MicroBlock.forward
XVals == {1, 2}
PVals == {1, 3}
SpVals == {-5}
\* the sigmoid gate w is GateNum / GateDen, strictly between 0 and 1
GateDen == 4
GateNums == {1, 3}

NumClasses == {10, 1000}
Activations == {"ReLU", "HSwish"}
Devices == {"cuda:0", "cpu"}

----------------------------------------------------------------------------
(* Helpers.                                                                *)

Max(a, b) == IF a >= b THEN a ELSE b
Min(a, b) == IF a <= b THEN a ELSE b
Abs(a) == IF a >= 0 THEN a ELSE -a

\* Python int() of the rational num/den (den > 0): truncation toward zero
PyInt(num, den) == IF num >= 0 THEN num \div den ELSE -((-num) \div den)

\* Python "sub in s" on strings, strings being sequences of characters
StrIn(sub, s) ==
  \E i \in 1..(Len(s) - Len(sub) + 1) : SubSeq(s, i, i + Len(sub) - 1) = sub

----------------------------------------------------------------------------
(* Names of the attributes that hold sub-modules, as character strings.    *)

N_criterion == <<"c","r","i","t","e","r","i","o","n">>
N_conv1     == <<"c","o","n","v","1">>
N_bn1       == <<"b","n","1">>
N_layers    == <<"l","a","y","e","r","s">>
N_last_conv == <<"l","a","s","t","_","c","o","n","v">>
N_avg       == <<"a","v","g">>
N_dropout   == <<"d","r","o","p","o","u","t">>
N_linear    == <<"l","i","n","e","a","r">>
N_stem_act  == <<"s","t","e","m","_","a","c","t">>
\* the literals searched for by reset_custom_parameters
S_layer == <<"l","a","y","e","r">>
S_conv1 == <<"c","o","n","v","1">>
S_conv2 == <<"c","o","n","v","2">>
S_conv3 == <<"c","o","n","v","3">>

----------------------------------------------------------------------------
(* The stage table and its rescaling.                                      *)

\* self.cfg as written in __init__: (expansion, out_planes, num_blocks, stride)
BaseCfg ==
  << <<1, 16, 2, 1>>,
     <<3, 24, 1, 2>>,
     <<3, 24, 2, 1>>,
     <<3, 40, 1, 2>>,
     <<3, 40, 2, 1>>,
     <<3, 80, 1, 2>>,
     <<3, 80, 2, 1>>,
     <<3, 96, 2, 1>>,
     <<3, 192, 1, 2>>,
     <<3, 192, 3, 1>>,
     <<3, 320, 1, 1>> >>

Expansion(st) == st[1]
OutPlanes(st) == st[2]
NumBlocks(st) == st[3]
Stride(st) == st[4]

\* a factor is the rational f[1] / f[2]
WideFactors ==
  {<<n, 2 ^ e>> : n \in 1..MaxWideNum, e \in 0..MaxWideDenExp}
DepthFactors ==
  {<<n, 2 ^ e>> : n \in 1..MaxDepthNum, e \in 0..MaxDepthDenExp}

\* faulty variant: the depth factor is applied to every stage, whatever its stride
change_cfg_AllStages(c, wide_factor, depth_factor) ==
  [i \in 1..Len(c) |->
     <<c[i][1],
       PyInt(c[i][2] * wide_factor[1], wide_factor[2]),
       PyInt(c[i][3] * depth_factor[1], depth_factor[2]),
       c[i][4]>>]

\* change_cfg: the table after the loop over range(len(self.cfg))
change_cfg(c, wide_factor, depth_factor) ==
  [i \in 1..Len(c) |->
     <<c[i][1],
       PyInt(c[i][2] * wide_factor[1], wide_factor[2]),
       IF c[i][4] = 1
         THEN PyInt(c[i][3] * depth_factor[1], depth_factor[2])
         ELSE c[i][3],
       c[i][4]>>]

----------------------------------------------------------------------------
(* MicroBlock.__init__                                                     *)

SERatio4 == 4

\* faulty variant: the depthwise convolution of a stride-2 block keeps padding 1
Conv2Padding_Same(stride) == 1

\* padding of conv2: 1 with the 3x3 kernel (stride 1), 2 with the 5x5 (stride 2)
Conv2Padding(stride) == IF stride = 1 THEN 1 ELSE 2

\* kernel size of conv2
Conv2Kernel(stride) == IF stride = 1 THEN 3 ELSE 5

\* self.shortcut: the empty nn.Sequential() (identity) unless stride 1 and the
\* channel counts differ
ShortcutKind(in_planes, out_planes, stride) ==
  IF stride = 1 /\ in_planes # out_planes THEN "conv_bn" ELSE "identity"

\* the initial state of a convolution's weight: PyTorch's own default
DefaultInit == [by |-> "default", mult100 |-> 0, n |-> 0]

\* the convolutions a block owns
BlockConvs(shortcut, add_se) ==
  {"conv1", "conv2", "conv3"}
    \cup (IF shortcut = "conv_bn" THEN {"shortcut.0"} ELSE {})
    \cup (IF add_se THEN {"fc1", "fc2"} ELSE {})

MicroBlock(in_planes, out_planes, expansion, stride, device, add_se, Activation) ==
  LET sc == ShortcutKind(in_planes, out_planes, stride) IN
  [ in_planes  |-> in_planes,
    out_planes |-> out_planes,
    stride     |-> stride,
    planes     |-> PyInt(expansion * in_planes, 1),
    kernel     |-> Conv2Kernel(stride),
    padding    |-> Conv2Padding(stride),
    add_se     |-> add_se,
    act        |-> IF Activation = "HSwish" THEN "HSwish" ELSE "ReLU",
    shortcut   |-> sc,
    number     |-> IF add_se THEN PyInt(out_planes, SERatio4) ELSE 0,
    device     |-> device,      \* the argument as passed; the block does not use it
    winit      |-> [c \in BlockConvs(sc, add_se) |-> DefaultInit] ]

\* nn.Conv2d(planes, planes, groups=planes) raises when planes is 0
\* (groups must be a positive integer)
BlockRaises(in_planes, expansion) == PyInt(expansion * in_planes, 1) = 0

\* kernel size and out_channels of each convolution of a block
ConvK(b, c) == IF c = "conv2" THEN b.kernel ELSE 1
ConvOutCh(b, c) ==
  CASE c = "conv1" -> b.planes
    [] c = "conv2" -> b.planes
    [] c = "conv3" -> b.out_planes
    [] c = "shortcut.0" -> b.out_planes
    [] c = "fc1" -> b.number
    [] c = "fc2" -> b.out_planes

----------------------------------------------------------------------------
(* IEEE binary32 arithmetic, as far as HSwish.forward needs it.            *)
(* A float is <<m, e>>, the number m * 2^e with |m| < 2^24, kept in the     *)
(* canonical form where m is odd (or <<0, 0>>; the sign of zero is          *)
(* dropped: -0.0 == 0.0).  The exponents that occur stay far from           *)
(* overflow and from the subnormal range.                                   *)

Precision == 24

\* the number of bits of n, 0 <= n < 2^30
BitLen(n) ==
  CHOOSE k \in 0..30 : n < 2 ^ k /\ (k = 0 \/ n >= 2 ^ (k - 1))

\* the number of trailing zero bits of m # 0
TrailingZeros(m) ==
  CHOOSE k \in 0..29 : m % (2 ^ k) = 0 /\ m % (2 ^ (k + 1)) # 0

Canon(m, e) ==
  IF m = 0 THEN <<0, 0>>
  ELSE <<m \div (2 ^ TrailingZeros(m)), e + TrailingZeros(m)>>

\* The float nearest to (M + s) * 2^E where M >= 0 is an integer and
\* sticky tells whether a positive fraction s < 1 was cut off below M;
\* ties go to the even significand.
RoundPos(M, sticky, E) ==
  LET drop == BitLen(M) - Precision IN
  IF drop <= 0
    THEN Canon(M, E)     \* only reached with sticky = FALSE: the value is exact
    ELSE LET unit == 2 ^ drop
             q    == M \div unit
             low  == M % unit
             half == unit \div 2
             up   == \/ low > half
                     \/ low = half /\ sticky
                     \/ low = half /\ ~sticky /\ q % 2 = 1
         IN Canon(IF up THEN q + 1 ELSE q, E + drop)

Neg(a) == <<-a[1], a[2]>>

Round(M, E) == IF M >= 0 THEN RoundPos(M, FALSE, E) ELSE Neg(RoundPos(-M, FALSE, E))

\* the integers ma, mb with a = ma * 2^e, b = mb * 2^e, e the smaller exponent
AlignE(a, b) == Min(a[2], b[2])
AlignM(a, b) == a[1] * 2 ^ (a[2] - AlignE(a, b))

FAdd(a, b) == Round(AlignM(a, b) + AlignM(b, a), AlignE(a, b))
FMul(a, b) == Round(a[1] * b[1], a[2] + b[2])
FLeq(a, b) == AlignM(a, b) <= AlignM(b, a)

\* the least shift s with m * 2^s >= d * 2^Precision
DivShift(m, d) ==
  CHOOSE s \in 0..Precision + 2 :
    /\ s > 0 => m * 2 ^ (s - 1) < d * 2 ^ Precision
    /\ m * 2 ^ s >= d * 2 ^ Precision

\* a / b, b > 0; the quotient is formed with at least 25 significant bits
\* and a sticky bit for the remainder, then rounded once
FDiv(a, b) ==
  IF a[1] = 0 THEN <<0, 0>>
  ELSE LET m  == Abs(a[1])
           sh == DivShift(m, b[1])
           N  == m * 2 ^ sh
           r  == RoundPos(N \div b[1], N % b[1] # 0, a[2] - sh - b[2])
       IN IF a[1] > 0 THEN r ELSE Neg(r)

F3 == Canon(3, 0)
F6 == Canon(6, 0)
FZero == Canon(0, 0)

\* nn.ReLU6: min(max(t, 0), 6)
ReLU6(t) == IF FLeq(t, FZero) THEN FZero ELSE IF FLeq(F6, t) THEN F6 ELSE t

\* faulty variant: nn.ReLU in place of nn.ReLU6 (no upper clip)
HSwish_NoClip(x) ==
  FDiv(FMul(x, IF FLeq(FAdd(x, F3), FZero) THEN FZero ELSE FAdd(x, F3)), F6)

\* HSwish.forward: x * self.relu(x + 3.0) / 6.0, each operation rounded
HSwish(x) == FDiv(FMul(x, ReLU6(FAdd(x, F3))), F6)

\* the inputs tried: the half-integers up to MaxX / 2 in absolute value, and
\* the floats next to 3 and to -3 (24-bit significands 3 * 2^22 + j)
HSwishInputs ==
  {Canon(k, -1) : k \in (-MaxX)..MaxX}
    \cup {Canon(3 * 2 ^ 22 + j, -22) : j \in 0..MaxMant}
    \cup {Canon(-(3 * 2 ^ 22 + j), -22) : j \in 0..MaxMant}

\* unit in the last place of a nonzero float x, as the exponent of 2
UlpExp(x) == BitLen(Abs(x[1])) + x[2] - Precision

\* |a - b| <= 2^k
WithinPow2(a, b, k) ==
  LET d == Abs(AlignM(a, b) - AlignM(b, a))
      E == AlignE(a, b)
  IN IF d = 0 THEN TRUE
     ELSE IF E >= k THEN d = 1 /\ E = k
     ELSE d <= 2 ^ (k - E)

----------------------------------------------------------------------------
(* Forward passes.                                                         *)

\* output size of nn.Conv2d along one spatial axis
ConvOut(h, kernel, stride, padding) == (h + 2 * padding - kernel) \div stride + 1

\* a tensor shape is <<batch, channels, height, width>>; ShapeError stands
\* for the runtime's shape-mismatch exception
ShapeError == <<>>

\* the ValueError of nn.BatchNorm2d in training mode, "Expected more than 1
\* value per channel when training"
BatchNormError == <<-1>>

\* s is the shape of a tensor, not an exception
IsShape(s) == Len(s) = 4

\* nn.Conv2d applied to a tensor of shape s
Conv2dShape(s, in_ch, out_ch, kernel, stride, padding) ==
  IF ~IsShape(s) THEN s
  ELSE IF s[2] # in_ch THEN ShapeError
  ELSE <<s[1], out_ch, ConvOut(s[3], kernel, stride, padding),
                       ConvOut(s[4], kernel, stride, padding)>>

\* nn.BatchNorm2d applied to a tensor of shape s.  In training mode, the
\* mode of a module until eval() is called, the batch statistics need more
\* than one value per channel: batch * height * width > 1.
BatchNorm2dShape(s, training) ==
  IF ~IsShape(s) THEN s
  ELSE IF training /\ s[1] * s[3] * s[4] = 1 THEN BatchNormError
  ELSE s

\* MicroBlock.forward on shapes: conv1, bn1, conv2, bn2, conv3, bn3, then the
\* SE branch when add_se, then the shortcut when stride is 1
BlockShape(b, s, training) ==
  LET o1 == BatchNorm2dShape(Conv2dShape(s, b.in_planes, b.planes, 1, 1, 0), training)
      o2 == BatchNorm2dShape(
              Conv2dShape(o1, b.planes, b.planes, b.kernel, b.stride, b.padding),
              training)
      o3 == BatchNorm2dShape(Conv2dShape(o2, b.planes, b.out_planes, 1, 1, 0), training)
      w1 == IF ~IsShape(o3) THEN o3
            ELSE Conv2dShape(<<o3[1], o3[2], 1, 1>>, b.out_planes, b.number, 1, 1, 0)
      w2 == Conv2dShape(w1, b.number, b.out_planes, 1, 1, 0)
      sc == IF b.shortcut = "identity" THEN s
            ELSE BatchNorm2dShape(
                   Conv2dShape(s, b.in_planes, b.out_planes, 1, 1, 0), training)
  IN IF ~IsShape(o3) THEN o3
     ELSE IF b.add_se /\ ~IsShape(w2) THEN w2
     ELSE IF b.stride # 1 THEN o3
     ELSE IF ~IsShape(sc) THEN sc
     ELSE IF sc = o3 THEN o3
     ELSE ShapeError

\* nn.Sequential: the blocks lo..hi applied in order (the range is split in
\* halves, the second half applied to the result of the first)
RECURSIVE LayersShape(_, _, _, _, _)
LayersShape(blocks, lo, hi, s, training) ==
  IF ~IsShape(s) \/ lo > hi THEN s
  ELSE IF lo = hi THEN BlockShape(blocks[lo], s, training)
  ELSE LayersShape(blocks, (lo + hi) \div 2 + 1, hi,
                   LayersShape(blocks, lo, (lo + hi) \div 2, s, training), training)

\* conv1: nn.Conv2d(3, self.input_channel, kernel_size=3, stride=2, padding=1)
\* followed by bn1
StemShape(t, s, training) ==
  BatchNorm2dShape(Conv2dShape(s, 3, t.conv1_out, 3, 2, 1), training)

\* the shape of the feature map handed to last_conv
FeatureShape(t, blocks, s, training) ==
  LayersShape(blocks, 1, Len(blocks), StemShape(t, s, training), training)

\* MicroNet_imagenet.forward on shapes
NetShape(t, blocks, s, training) ==
  LET f  == FeatureShape(t, blocks, s, training)
      h  == Conv2dShape(f, t.last_conv_in, t.last_conv_out, 1, 1, 0)
  IN IF ~IsShape(h) THEN h
     ELSE IF h[2] # t.linear_in THEN ShapeError
     ELSE <<h[1], t.linear_out>>

\* faulty variant: the shortcut is added whatever the stride
BlockForward_AlwaysShortcut(b, x, p, gate, sp) ==
  LET shortcut_x == IF b.shortcut = "identity" THEN x ELSE sp IN
  IF b.add_se
    THEN p * gate + shortcut_x * GateDen
    ELSE (p + shortcut_x) * GateDen

\* MicroBlock.forward on one tensor element.  x is the input element, p the
\* element of bn3(conv3(...)), gate / GateDen the sigmoid weight w and sp the
\* element of the learned shortcut projection of x.  The result is the
\* output element times GateDen.
BlockForward(b, x, p, gate, sp) ==
  LET shortcut_x == IF b.shortcut = "identity" THEN x ELSE sp IN
  IF b.add_se
    THEN (IF b.stride = 1 THEN p * gate + shortcut_x * GateDen ELSE p * GateDen)
    ELSE (IF b.stride = 1 THEN (p + shortcut_x) * GateDen ELSE p * GateDen)

----------------------------------------------------------------------------
(* MicroNet_imagenet.__init__                                              *)

InputChannel == 32
LastChannel == 640

\* faulty variant: the stage table is rescaled only after the layers are built
InitOrder_LayersFirst ==
  <<"cfg", "set_config", "stem", "layers", "change_cfg", "head",
    "reset_parameters", "reset_custom_parameters", "done">>

\* the statements of __init__, in order
InitOrder ==
  <<"cfg", "change_cfg", "set_config", "stem", "layers", "head",
    "reset_parameters", "reset_custom_parameters", "done">>

After(p) == InitOrder[(CHOOSE i \in 1..(Len(InitOrder) - 1) : InitOrder[i] = p) + 1]

\* strides = [stride] + [1]*(num_blocks-1); a list times a negative number is empty
Strides(stride, num_blocks) ==
  <<stride>> \o [j \in 1..Max(num_blocks - 1, 0) |-> 1]

\* faulty variant: in_planes is not advanced to the block's out_planes
NextInPlanes_Stale(in_planes, out_planes) == in_planes

\* in_planes = out_planes at the end of the inner loop of _make_layers
NextInPlanes(in_planes, out_planes) == out_planes

Unset == [add_se |-> FALSE, Activation |-> "", input_channel |-> 0,
          last_channel |-> 0, num_classes |-> 0, device |-> "",
          recipe |-> <<>>]

NoTop == [conv1_out |-> 0, last_conv_in |-> 0, last_conv_out |-> 0, linear_in |-> 0,
          linear_out |-> 0, stem_act |-> "", winit |-> <<>>,
          bn |-> "default", linear |-> "default"]

NoLoop == [stage |-> 0, k |-> 0, in_planes |-> 0]

NoCall == [op |-> "none"]

Args ==
  [num_classes : NumClasses, wide_factor : WideFactors,
   depth_factor : DepthFactors, add_se : BOOLEAN, Activation : Activations]

\* the state on entry to __init__ with arguments a
Entry(a) ==
  /\ pc = InitOrder[1]
  /\ args = a
  /\ cfg = <<>>
  /\ self = Unset
  /\ children = <<>>
  /\ layers = <<>>
  /\ loop = NoLoop
  /\ top = NoTop
  /\ log = <<>>
  /\ call = NoCall

Init == \E a \in Args : Entry(a)

\* line 110
AssignCfg ==
  /\ pc = "cfg"
  /\ cfg' = BaseCfg
  /\ log' = Append(log, "cfg")
  /\ pc' = After("cfg")
  /\ UNCHANGED <<args, self, children, layers, loop, top, call>>

\* line 123
ChangeCfg ==
  /\ pc = "change_cfg"
  /\ cfg' = change_cfg(cfg, args.wide_factor, args.depth_factor)
  /\ log' = Append(log, "change_cfg")
  /\ pc' = After("change_cfg")
  /\ UNCHANGED <<args, self, children, layers, loop, top, call>>

\* line 125 and set_config; cuda.is_available() is the environment's answer.
\* criterion is an nn.Module, so assigning it registers the first child.
SetConfig ==
  /\ pc = "set_config"
  /\ \E d \in Devices :
       self' = [self EXCEPT !.device = d,
                            !.recipe = [batch_size |-> 128, num_epochs |-> 200,
                                        milestones |-> <<100, 150>>,
                                        nesterov |-> TRUE]]
  /\ children' = Append(children, N_criterion)
  /\ log' = Append(log, "set_config")
  /\ pc' = After("set_config")
  /\ UNCHANGED <<args, cfg, layers, loop, top, call>>

\* lines 128-134
Stem ==
  /\ pc = "stem"
  /\ self' = [self EXCEPT !.add_se = args.add_se,
                          !.Activation = args.Activation,
                          !.input_channel = InputChannel,
                          !.last_channel = LastChannel,
                          !.num_classes = args.num_classes]
  /\ top' = [top EXCEPT !.conv1_out = InputChannel,
                        !.winit = [c \in {"conv1"} |-> DefaultInit]]
  /\ children' = children \o <<N_conv1, N_bn1>>
  /\ log' = Append(log, "stem")
  /\ pc' = After("stem")
  /\ UNCHANGED <<args, cfg, layers, loop, call>>

\* line 135, the call: _make_layers(in_planes=self.input_channel)
MakeLayersEnter ==
  /\ pc = "layers"
  /\ loop.stage = 0
  /\ loop' = [stage |-> 1, k |-> 1, in_planes |-> self.input_channel]
  /\ UNCHANGED <<pc, args, cfg, self, children, layers, top, log, call>>

\* lines 184-188: one iteration of the inner loop
MakeBlock ==
  /\ pc = "layers"
  /\ loop.stage \in 1..Len(cfg)
  /\ LET st      == cfg[loop.stage]
         strides == Strides(Stride(st), NumBlocks(st))
     IN /\ ~BlockRaises(loop.in_planes, Expansion(st))
        /\ layers' = Append(layers,
                       MicroBlock(loop.in_planes, OutPlanes(st), Expansion(st),
                                  strides[loop.k], self.device, self.add_se,
                                  self.Activation))
        /\ loop' = [stage     |-> IF loop.k = Len(strides) THEN loop.stage + 1
                                  ELSE loop.stage,
                    k         |-> IF loop.k = Len(strides) THEN 1 ELSE loop.k + 1,
                    in_planes |-> NextInPlanes(loop.in_planes, OutPlanes(st))]
  /\ log' = Append(log, "MicroBlock")
  /\ UNCHANGED <<pc, args, cfg, self, children, top, call>>

\* line 187 when the block's constructor raises: __init__ is abandoned
MakeBlockRaises ==
  /\ pc = "layers"
  /\ loop.stage \in 1..Len(cfg)
  /\ BlockRaises(loop.in_planes, Expansion(cfg[loop.stage]))
  /\ pc' = "error"
  /\ UNCHANGED <<args, cfg, self, children, layers, loop, top, log, call>>

\* line 189 and the assignment to self.layers
MakeLayersReturn ==
  /\ pc = "layers"
  /\ loop.stage = Len(cfg) + 1
  /\ children' = Append(children, N_layers)
  /\ log' = Append(log, "layers")
  /\ pc' = After("layers")
  /\ UNCHANGED <<args, cfg, self, layers, loop, top, call>>

\* lines 137-145
BuildHead ==
  /\ pc = "head"
  /\ top' = [top EXCEPT
               !.last_conv_in = OutPlanes(cfg[Len(cfg)]),
               !.last_conv_out = self.last_channel,
               !.linear_in = self.last_channel,
               !.linear_out = self.num_classes,
               !.stem_act = IF self.Activation = "HSwish" THEN "HSwish" ELSE "ReLU",
               !.winit = [c \in {"conv1", "last_conv"} |-> DefaultInit]]
  /\ children' = children \o <<N_last_conv, N_avg, N_dropout, N_linear, N_stem_act>>
  /\ log' = Append(log, "head")
  /\ pc' = After("head")
  /\ UNCHANGED <<args, cfg, self, layers, loop, call>>

\* the ZeroDivisionError of 2. / n when n is 0
ZeroDivision == [by |-> "ZeroDivisionError", mult100 |-> 0, n |-> 0]

\* reset_parameters on one convolution: normal_(0, sqrt(2 / n)),
\* n = kernel_size[0] * kernel_size[1] * out_channels; the division raises
\* for a convolution without output channels
GenericInit(kernel, out_channels) ==
  IF kernel * kernel * out_channels = 0 THEN ZeroDivision
  ELSE [by |-> "generic", mult100 |-> 100, n |-> kernel * kernel * out_channels]

\* the convolutions of a block in the order self.modules() visits them, the
\* order of their assignment in MicroBlock.__init__
ConvOrder == <<"conv1", "conv2", "conv3", "shortcut.0", "fc1", "fc2">>

ConvPos(c) == CHOOSE k \in 1..Len(ConvOrder) : ConvOrder[k] = c

\* the positions in ConvOrder of the convolutions of block b on which
\* reset_parameters raises
RaisingConvs(b) ==
  {ConvPos(c) : c \in {d \in DOMAIN b.winit :
                         GenericInit(ConvK(b, d), ConvOutCh(b, d)) = ZeroDivision}}

\* the blocks of self.layers on which reset_parameters raises
RaisingBlocks == {i \in 1..Len(layers) : RaisingConvs(layers[i]) # {}}

\* the smallest element of a nonempty set of integers
Least(S) == CHOOSE m \in S : \A k \in S : m <= k

\* line 148: reset_parameters visits every module of the network
ResetParameters ==
  /\ pc = "reset_parameters"
  /\ RaisingBlocks = {}
  /\ layers' = [i \in 1..Len(layers) |->
                  [layers[i] EXCEPT !.winit =
                     [c \in DOMAIN layers[i].winit |->
                        GenericInit(ConvK(layers[i], c), ConvOutCh(layers[i], c))]]]
  /\ top' = [top EXCEPT
               !.winit = [c \in DOMAIN top.winit |->
                            IF c = "conv1" THEN GenericInit(3, top.conv1_out)
                            ELSE GenericInit(1, top.last_conv_out)],
               !.bn = "ones_zeros",
               !.linear = "normal_0.01"]
  /\ log' = Append(log, "reset_parameters")
  /\ pc' = After("reset_parameters")
  /\ UNCHANGED <<args, cfg, self, children, loop, call>>

\* line 148 when the division of line 158 raises: the modules visited before
\* the convolution without output channels (conv1 and bn1 of the network, the
\* earlier blocks, the earlier convolutions of its block) are written, the
\* others (the rest of self.layers, last_conv, linear) are not, and __init__ is
\* abandoned
ResetParametersRaises ==
  /\ pc = "reset_parameters"
  /\ RaisingBlocks # {}
  /\ LET i0 == Least(RaisingBlocks)
         k0 == Least(RaisingConvs(layers[i0]))
     IN layers' = [i \in 1..Len(layers) |->
                     [layers[i] EXCEPT !.winit =
                        [c \in DOMAIN layers[i].winit |->
                           IF i < i0 \/ (i = i0 /\ ConvPos(c) < k0)
                             THEN GenericInit(ConvK(layers[i], c), ConvOutCh(layers[i], c))
                             ELSE layers[i].winit[c]]]]
  /\ top' = [top EXCEPT
               !.winit = [c \in DOMAIN top.winit |->
                            IF c = "conv1" THEN GenericInit(3, top.conv1_out)
                            ELSE top.winit[c]],
               !.bn = "partial"]
  /\ pc' = "error"
  /\ UNCHANGED <<args, cfg, self, children, loop, log, call>>

\* reset_custom_parameters: the direct children whose name contains 'layer'
\* and, first match of the if / elif chain, 'conv1', 'conv2' or 'conv3'
CustomRole(name) ==
  IF ~StrIn(S_layer, name) THEN "none"
  ELSE IF StrIn(S_conv1, name) THEN "conv1"
  ELSE IF StrIn(S_conv2, name) THEN "conv2"
  ELSE IF StrIn(S_conv3, name) THEN "conv3"
  ELSE "none"

CustomMatches == {i \in 1..Len(children) : CustomRole(children[i]) # "none"}

\* line 151: for a matching child the body reads module.shape, which an
\* nn.Module does not have (AttributeError); without a match nothing is written
ResetCustomParameters ==
  /\ pc = "reset_custom_parameters"
  /\ pc' = IF CustomMatches = {} THEN After("reset_custom_parameters") ELSE "error"
  /\ log' = Append(log, "reset_custom_parameters")
  /\ UNCHANGED <<args, cfg, self, children, layers, loop, top, call>>

----------------------------------------------------------------------------
(* Calls on a constructed network.                                         *)

ImageSizes == {32, 32 * MaxHMult}

\* MicroNet_imagenet.forward on a batch of images of shape (batch, 3, h, w).
\* training is the mode the caller has left the network in: TRUE from
\* construction on, FALSE after eval().
NetForward ==
  /\ pc = "done"
  /\ call = NoCall
  /\ \E bsz \in 1..MaxBatch, h \in ImageSizes, training \in BOOLEAN :
     \E w \in {32, h} :
       LET s == <<bsz, 3, h, w>> IN
       call' = [op |-> "net", x |-> s, training |-> training,
                feature |-> FeatureShape(top, layers, s, training),
                out |-> NetShape(top, layers, s, training)]
  /\ UNCHANGED <<pc, args, cfg, self, children, layers, loop, top, log>>

\* forward of one MicroBlock of self.layers on one tensor element
BlockCall ==
  /\ pc = "done"
  /\ call = NoCall
  /\ \E i \in 1..Len(layers), x \in XVals, p \in PVals, g \in GateNums, sp \in SpVals :
       call' = [op |-> "block", stride |-> layers[i].stride,
                add_se |-> layers[i].add_se,
                same |-> (layers[i].in_planes = layers[i].out_planes),
                shortcut |-> layers[i].shortcut,
                x |-> x, p |-> p, gate |-> g, sp |-> sp,
                out |-> BlockForward(layers[i], x, p, g, sp)]
  /\ UNCHANGED <<pc, args, cfg, self, children, layers, loop, top, log>>

\* forward of the HSwish activation on one binary32 element
HSwishCall ==
  /\ pc = "done"
  /\ call = NoCall
  /\ top.stem_act = "HSwish"
  /\ \E x \in HSwishInputs :
       call' = [op |-> "HSwish", x |-> x, out |-> HSwish(x)]
  /\ UNCHANGED <<pc, args, cfg, self, children, layers, loop, top, log>>

\* the call returns; the modules keep no state between forward calls
Return ==
  /\ call # NoCall
  /\ call' = NoCall
  /\ UNCHANGED <<pc, args, cfg, self, children, layers, loop, top, log>>

Next ==
  \/ AssignCfg
  \/ ChangeCfg
  \/ SetConfig
  \/ Stem
  \/ MakeLayersEnter
  \/ MakeBlock
  \/ MakeBlockRaises
  \/ MakeLayersReturn
  \/ BuildHead
  \/ ResetParameters
  \/ ResetParametersRaises
  \/ ResetCustomParameters
  \/ NetForward
  \/ BlockCall
  \/ HSwishCall
  \/ Return

Spec == Init /\ [][Next]_vars

----------------------------------------------------------------------------
(* Properties.                                                             *)

\* the step of __init__ named st has run
Ran(st) == \E i \in 1..Len(log) : log[i] = st

\* every occurrence of a in the log precedes every occurrence of b, and b
\* does not occur without a
Precedes(a, b) ==
  LET A == {i \in 1..Len(log) : log[i] = a}
      B == {j \in 1..Len(log) : log[j] = b}
  IN /\ B # {} => A # {}
     /\ \A i \in A, j \in B : i < j

Count(st) == Cardinality({i \in 1..Len(log) : log[i] = st})

\* q is the floor of the rational num / den, den > 0
IsFloor(q, num, den) == q * den <= num /\ num < (q + 1) * den

RECURSIVE SumBlocks(_, _)
SumBlocks(c, i) == IF i > Len(c) THEN 0 ELSE NumBlocks(c[i]) + SumBlocks(c, i + 1)

\* the (stride, out_planes) of the blocks the stages i.. of c call for when
\* each stage contributes exactly num_blocks blocks, the first with the
\* stage's stride and the others with stride 1
RECURSIVE StagePlan(_, _)
StagePlan(c, i) ==
  IF i > Len(c) THEN <<>>
  ELSE [j \in 1..NumBlocks(c[i]) |->
          <<IF j = 1 THEN Stride(c[i]) ELSE 1, OutPlanes(c[i])>>]
       \o StagePlan(c, i + 1)

\* C1: after change_cfg, a stride-2 stage keeps its block count, a stride-1
\* stage has floor(depth_factor * original count) blocks, every stage has
\* floor(wide_factor * original out_channels) channels, and expansion and
\* stride are those of the original table.
C1_ChangeCfgScaling ==
  Ran("change_cfg") =>
    /\ Len(cfg) = Len(BaseCfg)
    /\ \A i \in 1..Len(BaseCfg) :
         /\ Expansion(cfg[i]) = Expansion(BaseCfg[i])
         /\ Stride(cfg[i]) = Stride(BaseCfg[i])
         /\ IsFloor(OutPlanes(cfg[i]),
                    OutPlanes(BaseCfg[i]) * args.wide_factor[1], args.wide_factor[2])
         /\ Stride(BaseCfg[i]) = 2 => NumBlocks(cfg[i]) = NumBlocks(BaseCfg[i])
         /\ Stride(BaseCfg[i]) = 1 =>
              IsFloor(NumBlocks(cfg[i]),
                      NumBlocks(BaseCfg[i]) * args.depth_factor[1], args.depth_factor[2])

\* C1 witness: a rescaling with depth factor 2 and wide factor 1/32, where
\* 40/32 is rounded down to 1 and the stride-2 stages keep their one block
C1_Witness ==
  /\ Ran("change_cfg")
  /\ args.depth_factor = <<2, 1>>
  /\ args.wide_factor = <<1, 32>>
  /\ cfg[4] = <<3, 1, 1, 2>>
  /\ cfg[5] = <<3, 1, 4, 1>>

\* C2 (as claimed): after change_cfg every stage has out_channels >= 1 and
\* num_blocks >= 1, for every positive wide_factor and depth_factor.
C2_CountsAtLeastOne ==
  Ran("change_cfg") =>
    \A i \in 1..Len(cfg) : OutPlanes(cfg[i]) >= 1 /\ NumBlocks(cfg[i]) >= 1

\* C3 (as claimed): with SE enabled the projected output is multiplied by
\* the gate for every stride: stride 2 gives projected * w, stride 1 gives
\* projected * w + shortcut.
C3_GateEveryStride ==
  (call.op = "block" /\ call.add_se) =>
    call.out = IF call.stride = 2 THEN call.p * call.gate
               ELSE call.p * call.gate
                    + (IF call.same THEN call.x ELSE call.sp) * GateDen

\* the element of the branch without shortcut, times GateDen: gated or not
Branches(c) == {c.p * GateDen, c.p * c.gate}

\* C4: a shortcut term is added exactly when stride == 1.  With stride 2 the
\* output element is the branch alone; with stride 1 the term added is the
\* input itself when in_channels == out_channels (without SE the output is
\* projected + input) and the learned conv + norm projection otherwise.
C4_ShortcutIffStride1 ==
  /\ \A i \in 1..Len(layers) :
       (layers[i].shortcut = "conv_bn") <=>
         (layers[i].stride = 1 /\ layers[i].in_planes # layers[i].out_planes)
  /\ call.op = "block" =>
       /\ call.stride = 2 => call.out \in Branches(call)
       /\ (call.stride = 1 /\ call.same) =>
            /\ call.shortcut = "identity"
            /\ call.out - call.x * GateDen \in Branches(call)
            /\ ~call.add_se => call.out = (call.p + call.x) * GateDen
       /\ (call.stride = 1 /\ ~call.same) =>
            /\ call.shortcut = "conv_bn"
            /\ call.out - call.sp * GateDen \in Branches(call)

\* C4 witness: a forward call on a stride-1 block with equal channel counts
\* and no SE, whose output is projected + input
C4_Witness ==
  /\ call.op = "block"
  /\ call.stride = 1
  /\ call.same
  /\ ~call.add_se
  /\ call.out = (call.p + call.x) * GateDen

Stride2Stages == {i \in 1..Len(cfg) : Stride(cfg[i]) = 2}
Stride2Blocks == {i \in 1..Len(layers) : layers[i].stride = 2}

\* C5 (as claimed): five stride-2 stages besides the stem, and a feature map
\* entering the head convolution that is 1/64 of the image in each dimension.
C5_FiveStagesFactor64 ==
  /\ Ran("change_cfg") => Cardinality(Stride2Stages) = 5
  /\ (call.op = "net" /\ IsShape(call.feature)) =>
       /\ 64 * call.feature[3] = call.x[3]
       /\ 64 * call.feature[4] = call.x[4]

\* C5 (amended): four stride-2 stages besides the stride-2 stem, hence four
\* stride-2 blocks, and for image sizes divisible by 32 a feature map
\* entering the head convolution (when the forward pass gets there) that is
\* 1/32 of the image in each dimension; the depthwise convolution of a
\* stride-1 block preserves the spatial size and that of a stride-2 block
\* halves an even size.
C5_FourStagesFactor32 ==
  /\ Ran("change_cfg") => Cardinality(Stride2Stages) = 4
  /\ pc = "done" => Cardinality(Stride2Blocks) = 4
  /\ \A i \in 1..Len(layers) :
       /\ layers[i].kernel = IF layers[i].stride = 1 THEN 3 ELSE 5
       /\ \A h \in {2 * k : k \in 1..(2 * MaxHMult)} :
            ConvOut(h, layers[i].kernel, layers[i].stride, layers[i].padding)
              = IF layers[i].stride = 1 THEN h ELSE h \div 2
  /\ (call.op = "net" /\ IsShape(call.feature)) =>
       /\ 32 * call.feature[3] = call.x[3]
       /\ 32 * call.feature[4] = call.x[4]

\* C5 witness: a forward call on a 224 x 224 image whose feature map
\* entering the head convolution is 7 x 7
C5_Witness ==
  /\ call.op = "net"
  /\ call.x[3] = 224 /\ call.x[4] = 224
  /\ IsShape(call.feature)
  /\ call.feature[3] = 7 /\ call.feature[4] = 7

\* the weight state the custom pass is meant to leave in a convolution
CustomMult(c) == CASE c = "conv1" -> 73 [] c = "conv2" -> 937 [] c = "conv3" -> 55

\* C6 (as claimed): once the network is constructed, conv1, conv2 and conv3
\* of every MicroBlock carry the custom initialization with multipliers
\* 0.73, 9.37 and 0.55, written over the generic one.
C6_CustomOverride ==
  pc = "done" =>
    \A i \in 1..Len(layers) : \A c \in {"conv1", "conv2", "conv3"} :
      /\ layers[i].winit[c].by = "custom"
      /\ layers[i].winit[c].mult100 = CustomMult(c)

\* C7: channel counts chain: the first block takes the stem's 32 channels,
\* every later block takes the previous block's out_channels, the head
\* convolution takes the last block's out_channels and the classifier 640
\* features; no forward call on a constructed network ends in a shape
\* mismatch: it yields logits of shape (batch, num_classes), on 224 x 224
\* images in particular, unless the network is in training mode and the
\* image is a single 32 x 32 one, which leaves batch normalization one value
\* per channel.
C7_ChannelsChain ==
  /\ Len(layers) >= 1 => layers[1].in_planes = 32
  /\ \A i \in 2..Len(layers) : layers[i].in_planes = layers[i - 1].out_planes
  /\ Ran("head") =>
       /\ Len(layers) >= 1
       /\ top.last_conv_in = layers[Len(layers)].out_planes
       /\ top.linear_in = 640
  /\ call.op = "net" =>
       /\ call.out # ShapeError
       /\ call.out = BatchNormError <=>
            (call.training /\ call.x[1] * call.x[3] * call.x[4] = 32 * 32)
       /\ call.out # BatchNormError => call.out = <<call.x[1], args.num_classes>>
       /\ (call.x[3] = 224 /\ call.x[4] = 224) =>
            call.out = <<call.x[1], args.num_classes>>

\* C7 witness: the network with num_classes=1000, wide_factor=1,
\* depth_factor=1, SE and HSwish, in training mode as constructed, maps a
\* (2,3,224,224) batch to (2,1000)
C7_Witness ==
  /\ call.op = "net"
  /\ call.training
  /\ args = [num_classes |-> 1000, wide_factor |-> <<1, 1>>,
             depth_factor |-> <<1, 1>>, add_se |-> TRUE, Activation |-> "HSwish"]
  /\ call.x = <<2, 3, 224, 224>>
  /\ call.out = <<2, 1000>>

\* C8 (as claimed): HSwish(x) == x for every x >= 3 and HSwish(x) == 0 for
\* every x <= -3.
C8_ExactIdentity ==
  call.op = "HSwish" =>
    /\ FLeq(F3, call.x) => call.out = call.x
    /\ FLeq(call.x, Neg(F3)) => call.out = FZero

\* 6 * x is a binary32 number: the product x * 6.0 is not rounded
SixfoldExact(x) == BitLen(Abs(Canon(3 * x[1], 0)[1])) <= Precision

\* C8 (amended): HSwish(x) == 0 for every x <= -3; for x >= 3 HSwish(x) is x
\* up to one unit in the last place of x, and exactly x when 6 * x is
\* representable.
C8_IdentityWithinUlp ==
  call.op = "HSwish" =>
    /\ FLeq(call.x, Neg(F3)) => call.out = FZero
    /\ FLeq(F3, call.x) =>
         /\ WithinPow2(call.out, call.x, UlpExp(call.x))
         /\ SixfoldExact(call.x) => call.out = call.x

\* C8 witness: HSwish on x = 3 + 2^-21 returns 3 + 3 * 2^-22, the float
\* next to x
C8_Witness ==
  /\ call.op = "HSwish"
  /\ call.x = <<6291457, -21>>
  /\ call.out = <<12582915, -22>>

\* C9 (as claimed): the blocks built are, stage by stage, exactly num_blocks
\* blocks of which only the first has the stage's stride, so that the number
\* of blocks is the sum of num_blocks over the stages.
C9_BlocksPerStage ==
  Ran("layers") =>
    /\ [i \in 1..Len(layers) |-> <<layers[i].stride, layers[i].out_planes>>]
         = StagePlan(cfg, 1)
    /\ Len(layers) = SumBlocks(cfg, 1)

\* C10: change_cfg runs once, on the table assigned in this __init__, and
\* before any MicroBlock is built; set_config (device) runs before any
\* MicroBlock is built and every block is handed that device; both
\* initialization passes run after the stem, all blocks and the head exist,
\* the generic pass first.
C10_ConstructionOrder ==
  /\ Count("change_cfg") <= 1
  /\ Count("cfg") <= 1
  /\ Precedes("cfg", "change_cfg")
  /\ Precedes("change_cfg", "MicroBlock")
  /\ Precedes("set_config", "MicroBlock")
  /\ \A i \in 1..Len(layers) :
       layers[i].device \in Devices /\ layers[i].device = self.device
  /\ Precedes("stem", "reset_parameters")
  /\ Precedes("MicroBlock", "reset_parameters")
  /\ Precedes("layers", "reset_parameters")
  /\ Precedes("head", "reset_parameters")
  /\ Precedes("reset_parameters", "reset_custom_parameters")
  /\ pc = "done" =>
       /\ Count("change_cfg") = 1
       /\ Count("MicroBlock") = Len(layers)
       /\ Ran("reset_custom_parameters")

\* C10 witness: a finished construction with more blocks than stages
C10_Witness ==
  /\ pc = "done"
  /\ Len(layers) > Len(cfg)
  /\ Ran("reset_custom_parameters")

====
